---- MODULE Spec2Model ----
(***************************************************************************)
(* A model of mcp_server.py: the sprint metrics aggregator                 *)
(* (analyze_sprint_metrics), the paginated issue fetch (get_sprint_issues),*)
(* the wiki page updater (update_confluence_document) and the tool         *)
(* dispatch endpoint (execute_tool).                                       *)
(*                                                                         *)
(* JSON values that may be absent or null are modelled as follows: a JSON  *)
(* object is a function whose DOMAIN is the set of keys present; the JSON  *)
(* null is the record JNull; other optional values are tagged records.     *)
(***************************************************************************)
EXTENDS Integers, Sequences, FiniteSets, TLC

VARIABLES
    \* analyze_sprint_metrics called on its own
    m_issues,      \* the argument `issues`
    m_sprint,      \* the argument `sprint_data`
    m_out,         \* the outcome of the call (NoOutcome before the call)
    \* get_sprint_issues
    ipc,           \* position: "idle", "loop" (line 246), "done"
    start_at,      \* local start_at
    all_issues,    \* local all_issues
    issues_ret,    \* the returned list
    pages,         \* the responses of the tracker to the page requests, in order
    \* outbound HTTP requests issued so far, in order
    outbound,
    \* the wiki page (owned by the external wiki service)
    page,
    \* update_confluence_document invocations
    calls,
    \* execute_tool
    epc,           \* position of the handler
    req,           \* request.json
    sprint_data,   \* local sprint_data
    resp           \* the HTTP response (NoResp before it is sent)

vars == <<m_issues, m_sprint, m_out, ipc, start_at, all_issues, issues_ret, pages,
          outbound, page, calls, epc, req, sprint_data, resp>>

metricsVars == <<m_issues, m_sprint, m_out>>
issuesVars == <<ipc, start_at, all_issues, issues_ret, pages>>
execVars == <<epc, req, sprint_data, resp>>

(***************************************************************************)
(* Bounds of the model.                                                    *)
(***************************************************************************)
\* longest issue list handed to analyze_sprint_metrics on its own
MaxIssues == 3
\* number of full pages the tracker may return before a short or empty one
MaxFullPages == 2
\* number of update_confluence_document calls in a run
MaxCalls == 2
\* largest version the wiki page starts with
MaxInitVersion == 4

(***************************************************************************)
(* JSON helpers.                                                           *)
(***************************************************************************)
JNull == [t |-> "null"]
JNum(n) == [t |-> "num", v |-> n]
JStr(s) == [t |-> "str", v |-> s]
JUser(name) == [t |-> "obj", displayName |-> name]
Has(d, k) == k \in DOMAIN d
\* dict.get(key): None when the key is absent
Get(d, k) == IF Has(d, k) THEN d[k] ELSE JNull

\* dict.get(key, 0) + 1 stored back under key
Bump(d, k) ==
    IF Has(d, k) THEN [d EXCEPT ![k] = @ + 1] ELSE d @@ (k :> 1)

RECURSIVE Gcd(_, _)
Gcd(a, b) == IF b = 0 THEN a ELSE Gcd(b, a % b)

(***************************************************************************)
(* analyze_sprint_metrics                                                  *)
(***************************************************************************)
\* An issue as the tracker returns it: key plus the requested fields.
Issue(status, type, fields) ==
    [fields |-> ("status" :> [name |-> status]) @@ ("issuetype" :> [name |-> type])
                 @@ fields]

WithAssignee(a) == "assignee" :> a
WithPoints(p) == "customfield_10016" :> p

\* issue['fields'].get('assignee', {}).get('displayName', 'Unassigned'):
\* the default {} is used only when the key is absent; a null assignee is
\* returned as None, and None.get raises AttributeError.
AssigneeName(fields) ==
    IF ~Has(fields, "assignee") THEN [raised |-> FALSE, value |-> "Unassigned"]
    ELSE IF fields["assignee"].t = "null"
         THEN [raised |-> TRUE, error |-> "AttributeError"]
    ELSE IF Has(fields["assignee"], "displayName")
         THEN [raised |-> FALSE, value |-> fields["assignee"].displayName]
         ELSE [raised |-> FALSE, value |-> "Unassigned"]

\* issue['fields'].get('customfield_10016', 0) or 0
StoryPoints(fields) ==
    IF ~Has(fields, "customfield_10016") THEN 0
    ELSE IF fields["customfield_10016"].t = "null" THEN 0
    ELSE fields["customfield_10016"].v

\* status in ['Done', 'Closed', 'Resolved']
CompletedStatuses == {"Done", "Closed", "Resolved"}

\* the metrics dict before the loop
InitialMetrics(issues, sprint) ==
    [total_issues |-> Len(issues),
     issues_by_status |-> <<>>,
     issues_by_type |-> <<>>,
     issues_by_assignee |-> <<>>,
     story_points |-> [total |-> 0, completed |-> 0],
     sprint_progress |-> <<0, 1>>,
     sprint_dates |-> [start_date |-> Get(sprint, "startDate"),
                      end_date |-> Get(sprint, "endDate")]]

\* faulty variant of AddTotal: the total is overwritten instead of added to
AddTotalMutLastWins(total, story_points) == story_points

\* metrics['story_points']['total'] += story_points
AddTotal(total, story_points) == total + story_points

\* one iteration of the loop over issues: the metrics after it, or the
\* exception it raises
LoopBody(m, issue) ==
    LET status == issue.fields["status"].name
        type == issue.fields["issuetype"].name
        assignee == AssigneeName(issue.fields)
        sp == StoryPoints(issue.fields)
    IN  IF assignee.raised THEN [raised |-> TRUE, error |-> assignee.error]
        ELSE [raised |-> FALSE,
              value |->
                [m EXCEPT
                    !.issues_by_status = Bump(@, status),
                    !.issues_by_type = Bump(@, type),
                    !.issues_by_assignee = Bump(@, assignee.value),
                    !.story_points = [total |-> AddTotal(@.total, sp),
                                      completed |-> IF status \in CompletedStatuses
                                                    THEN @.completed + sp
                                                    ELSE @.completed]]]

\* the loop over issues[lo..hi], in order, from the outcome `acc` of the
\* iterations before lo; the first iteration that raises ends the call. (The
\* range is halved only to keep the evaluation shallow: the iterations run
\* left to right, each on the metrics left by the one before.)
RECURSIVE MetricsLoop(_, _, _, _)
MetricsLoop(acc, issues, lo, hi) ==
    IF acc.raised \/ lo > hi THEN acc
    ELSE IF lo = hi THEN LoopBody(acc.value, issues[lo])
    ELSE LET mid == (lo + hi) \div 2
         IN  MetricsLoop(MetricsLoop(acc, issues, lo, mid), issues, mid + 1, hi)

\* (completed / total) * 100 as an exact fraction in lowest terms <<num, den>>
Progress(completed, total) ==
    IF total > 0
    THEN LET g == Gcd(completed * 100, total)
         IN  <<(completed * 100) \div g, total \div g>>
    ELSE <<0, 1>>

analyze_sprint_metrics(issues, sprint) ==
    LET r == MetricsLoop([raised |-> FALSE, value |-> InitialMetrics(issues, sprint)],
                         issues, 1, Len(issues))
    IN  IF r.raised THEN r
        ELSE [raised |-> FALSE,
              value |-> [r.value EXCEPT
                            !.sprint_progress =
                                Progress(r.value.story_points.completed,
                                         r.value.story_points.total)]
                        @@ ("velocity" :> r.value.story_points.completed)]

(***************************************************************************)
(* Inputs of the aggregator.                                               *)
(***************************************************************************)
Statuses == {"Done", "Closed", "Resolved", "Open"}

\* the issues the tracker may return
IssueSet ==
    {Issue(s, "Bug", WithAssignee(JUser("A")) @@ WithPoints(JNum(3))) : s \in Statuses}
    \cup {Issue("Open", "Bug", WithAssignee(JNull) @@ WithPoints(JNum(2))),
          Issue("Open", "Bug", WithPoints(JNum(2))),
          Issue("Done", "Story", WithAssignee([t |-> "obj"]) @@ WithPoints(JNum(1))),
          Issue("Closed", "Story", WithAssignee(JUser("B")) @@ WithPoints(JNull)),
          Issue("Resolved", "Story", WithAssignee(JUser("B"))),
          Issue("Done", "Story", WithAssignee(JUser("B")) @@ WithPoints(JNum(0)))}

\* sprints as the tracker returns them
Sprints ==
    {[id |-> 1, name |-> "Sprint 1", startDate |-> JStr("2024-01-01"),
      endDate |-> JStr("2024-01-14")],
     [id |-> 2, name |-> "Sprint 2"]}

SeqsUpTo(S, n) == UNION {[1..k -> S] : k \in 0..n}

NoOutcome == [pending |-> TRUE]
Returned(o) == Has(o, "raised")

MetricsIdle == m_issues = <<>> /\ m_sprint = <<>> /\ m_out = NoOutcome

\* a call analyze_sprint_metrics(m_issues, m_sprint)
Analyze ==
    /\ m_out = NoOutcome
    /\ m_out' = analyze_sprint_metrics(m_issues, m_sprint)
    /\ UNCHANGED <<m_issues, m_sprint, issuesVars, outbound, page, calls, execVars>>

(***************************************************************************)
(* get_sprint_issues                                                       *)
(***************************************************************************)
max_results == 50

\* the issues of one page: `n` issues shaped like `tmpl`, keyed by the number
\* of the request that returned them and their place in the page
PageIssues(k, n, tmpl) == [i \in 1..n |-> [key |-> <<k, i>>] @@ tmpl]

\* shapes of the issues a page may hold
PageTemplates ==
    {Issue("Done", "Bug", WithAssignee(JUser("A")) @@ WithPoints(JNum(3))),
     Issue("Open", "Bug", WithAssignee(JNull) @@ WithPoints(JNum(2))),
     Issue("Closed", "Story", WithPoints(JNull))}

\* sizes of the pages the tracker returns (it never exceeds maxResults)
PageSizes == {0, 1, 13, max_results - 1, max_results}

FullPages(ps) == Cardinality({i \in DOMAIN ps : ~ps[i].err /\ Len(ps[i].issues) = max_results})

IssuesIdle ==
    /\ ipc = "idle" /\ start_at = 0 /\ all_issues = <<>>
    /\ issues_ret = <<>> /\ pages = <<>>

\* lines 241-243: the locals on entry
IssuesEntry ==
    /\ ipc' = "loop" /\ start_at' = 0 /\ all_issues' = <<>>
    /\ issues_ret' = <<>> /\ pages' = <<>>

\* the request of line 253
PageRequest == [ep |-> "issues", startAt |-> start_at, maxResults |-> max_results]

\* faulty variant of ErrorReturn: the accumulated issues are returned
ErrorReturnMutPartial(acc) == acc

\* line 270: the value returned from the except clause
ErrorReturn(acc) == <<>>

\* faulty variant of ShortPage: a full page also ends the loop
ShortPageMutInclusive(p) == Len(p) <= max_results

\* line 262: the short page test
ShortPage(p) == Len(p) < max_results

\* requests.get or raise_for_status raises RequestException: lines 268-270
FetchPageError ==
    /\ ipc = "loop"
    /\ outbound' = Append(outbound, PageRequest)
    /\ pages' = Append(pages, [err |-> TRUE])
    /\ issues_ret' = ErrorReturn(all_issues)
    /\ ipc' = "done"
    /\ UNCHANGED <<start_at, all_issues, metricsVars, page, calls, execVars>>

\* one iteration of the loop with a 2xx answer holding the issues p: lines 247-267
FetchPageOk ==
    /\ ipc = "loop"
    /\ \E n \in PageSizes, tmpl \in PageTemplates :
        LET p == PageIssues(Len(pages) + 1, n, tmpl)
        IN  /\ n = max_results => FullPages(pages) < MaxFullPages
            /\ n = 0 => tmpl = CHOOSE t \in PageTemplates : TRUE
            /\ outbound' = Append(outbound, PageRequest)
            /\ pages' = Append(pages, [err |-> FALSE, issues |-> p])
            /\ IF p = <<>>
               THEN /\ issues_ret' = all_issues
                    /\ ipc' = "done"
                    /\ UNCHANGED <<start_at, all_issues>>
               ELSE /\ all_issues' = all_issues \o p
                    /\ IF ShortPage(p)
                       THEN /\ issues_ret' = all_issues \o p
                            /\ ipc' = "done"
                            /\ UNCHANGED start_at
                       ELSE /\ start_at' = start_at + max_results
                            /\ UNCHANGED <<ipc, issues_ret>>
    /\ UNCHANGED <<metricsVars, page, calls, execVars>>

FetchPage == FetchPageError \/ FetchPageOk

(***************************************************************************)
(* update_confluence_document                                              *)
(***************************************************************************)
CallIds == 1..MaxCalls
PageIds == {"P1"}
Titles == {"Sprint report", "Team notes"}
Dates == {"2024-01-15"}
InitialBody == [initial |-> TRUE]

\* insights as a caller may send them: complete ones, and ones that lack the
\* sprint or the metrics the template reads
MetricsOf(issues, sprint) == analyze_sprint_metrics(issues, sprint).value

SampleIssues ==
    <<Issue("Done", "Bug", WithAssignee(JUser("A")) @@ WithPoints(JNum(3))),
      Issue("Open", "Bug", WithPoints(JNum(2))),
      Issue("Open", "Story", WithAssignee(JUser("A")) @@ WithPoints(JNum(1)))>>

InsightsA ==
    [sprint |-> [id |-> 1, name |-> "Sprint 1"],
     metrics |-> MetricsOf(SubSeq(SampleIssues, 1, 2), [id |-> 1, name |-> "Sprint 1"])]

InsightsB ==
    [sprint |-> [id |-> 2, name |-> "Sprint 2"],
     metrics |-> MetricsOf(SampleIssues, [id |-> 2, name |-> "Sprint 2"])]

InsightsNoSprint == [metrics |-> InsightsA.metrics]
InsightsNoMetrics == [sprint |-> InsightsA.sprint]

\* the truthy insights values (the routes reject a falsy one before the call)
InsightsSet == {InsightsA, InsightsB, InsightsNoSprint, InsightsNoMetrics}

\* the metrics keys the template reads, lines 352-374
TemplateMetricKeys ==
    {"sprint_dates", "total_issues", "story_points", "sprint_progress", "velocity",
     "issues_by_status", "issues_by_type", "issues_by_assignee"}

\* {value:.2f} of a fraction <<num, den>>: hundredths, rounded to nearest
Format2(q) == (2 * 100 * q[1] + q[2]) \div (2 * q[2])

\* lines 346-376: the rendered body, or the KeyError of the first missing key
Render(ins, today) ==
    IF ~Has(ins, "sprint") \/ ~Has(ins, "metrics")
       \/ ~({"id", "name"} \subseteq DOMAIN ins["sprint"])
       \/ ~(TemplateMetricKeys \subseteq DOMAIN ins["metrics"])
    THEN [raised |-> TRUE, error |-> "KeyError"]
    ELSE LET m == ins["metrics"]
         IN  [raised |-> FALSE,
              value |-> [date |-> today,
                         sprint_id |-> ins["sprint"].id,
                         sprint_name |-> ins["sprint"].name,
                         start_date |-> m.sprint_dates.start_date,
                         end_date |-> m.sprint_dates.end_date,
                         total_issues |-> m.total_issues,
                         total |-> m.story_points.total,
                         completed |-> m.story_points.completed,
                         progress |-> Format2(m.sprint_progress),
                         velocity |-> m.velocity,
                         by_status |-> m.issues_by_status,
                         by_type |-> m.issues_by_type,
                         by_assignee |-> m.issues_by_assignee]]

NoResult == <<>>

IdleCall ==
    [pc |-> "idle", page_id |-> "", insights |-> <<>>, current_version |-> 0,
     title |-> "", result |-> NoResult, raised |-> ""]

\* lines 386-391
SuccessResult(page_id, new_version) ==
    [success |-> TRUE,
     message |-> "Documento de Confluence actualizado correctamente",
     page_id |-> page_id,
     new_version |-> new_version]

\* faulty variant of FailureResult: the failure object carries a new_version
FailureResultMutVersion(page_id) ==
    [success |-> FALSE,
     message |-> "Error al actualizar el documento",
     page_id |-> page_id,
     new_version |-> 0]

\* lines 395-399
FailureResult(page_id) ==
    [success |-> FALSE,
     message |-> "Error al actualizar el documento",
     page_id |-> page_id]

\* faulty variants of NewVersion: the version is not incremented; the version
\* is taken from the page as it is when the PUT is sent
NewVersionMutSame(current_version, live) == current_version

NewVersionMutReread(current_version, live) == live + 1

\* line 342 and line 390: current_version + 1; `live` is the version the page
\* has when the PUT is sent, which the code does not read
NewVersion(current_version, live) == current_version + 1

\* the responses the wiki service may give to GET /rest/api/content/{id}:
\* the page, or a body that lacks the version or the title
PageData ==
    {[version |-> [number |-> page.version], title |-> page.title],
     [title |-> page.title],
     [version |-> [number |-> page.version]]}

UpdateIdle == calls = [c \in CallIds |-> IdleCall] /\ outbound = <<>>

\* update_confluence_document(page_id, sprint_insights) is entered
UpdEnter(c, page_id, insights) ==
    calls' = [calls EXCEPT ![c] = [IdleCall EXCEPT !.pc = "get",
                                                  !.page_id = page_id,
                                                  !.insights = insights]]

\* lines 329-333 and 340, with the except clause of lines 393-399
UpdGet(c) ==
    /\ calls[c].pc = "get"
    /\ \/ /\ outbound' = Append(outbound, [ep |-> "wiki_get", call |-> c, ok |-> FALSE])
          /\ calls' = [calls EXCEPT ![c].pc = "done",
                                    ![c].result = FailureResult(calls[c].page_id)]
       \/ \E page_data \in PageData :
             /\ outbound' = Append(outbound, [ep |-> "wiki_get", call |-> c, ok |-> TRUE])
             /\ IF Has(page_data, "version") /\ Has(page_data, "title")
                THEN calls' = [calls EXCEPT ![c].pc = "put",
                                   ![c].current_version = page_data["version"].number,
                                   ![c].title = page_data["title"]]
                ELSE calls' = [calls EXCEPT ![c].pc = "done", ![c].raised = "KeyError"]
    /\ UNCHANGED <<page, metricsVars, issuesVars, execVars>>

\* lines 336-391, with the except clause of lines 393-399
UpdPut(c) ==
    /\ calls[c].pc = "put"
    /\ \E today \in Dates :
        LET body == Render(calls[c].insights, today)
            new_version == NewVersion(calls[c].current_version, page.version)
            put == [ep |-> "wiki_put", call |-> c,
                    version |-> new_version,
                    title |-> calls[c].title,
                    body |-> IF body.raised THEN InitialBody ELSE body.value]
        IN  IF body.raised
            THEN /\ calls' = [calls EXCEPT ![c].pc = "done", ![c].raised = body.error]
                 /\ UNCHANGED <<outbound, page>>
            ELSE \/ /\ outbound' = Append(outbound, put @@ [ok |-> TRUE])
                    /\ page' = [version |-> put.version, title |-> put.title,
                                body |-> put.body]
                    /\ calls' = [calls EXCEPT ![c].pc = "done",
                                    ![c].result = SuccessResult(calls[c].page_id,
                                                                new_version)]
                 \/ /\ outbound' = Append(outbound, put @@ [ok |-> FALSE])
                    /\ calls' = [calls EXCEPT ![c].pc = "done",
                                    ![c].result = FailureResult(calls[c].page_id)]
                    /\ UNCHANGED page
    /\ UNCHANGED <<metricsVars, issuesVars, execVars>>

\* /update-confluence (lines 208-223) calls the updater; one request at a time
StartSeq(c) ==
    /\ calls[c].pc = "idle"
    /\ \A d \in CallIds : d < c <=> calls[d].pc = "done"
    /\ \E page_id \in PageIds, insights \in InsightsSet : UpdEnter(c, page_id, insights)
    /\ UNCHANGED <<outbound, page, metricsVars, issuesVars, execVars>>

\* the same with requests served concurrently (the server is threaded)
StartConc(c) ==
    /\ calls[c].pc = "idle"
    /\ \A d \in CallIds : d < c => calls[d].pc # "idle"
    /\ \E page_id \in PageIds, insights \in InsightsSet : UpdEnter(c, page_id, insights)
    /\ UNCHANGED <<outbound, page, metricsVars, issuesVars, execVars>>

(***************************************************************************)
(* execute_tool                                                            *)
(***************************************************************************)
JObj(f) == [t |-> "obj", v |-> f]

ToolNames == {"", "get_sprint_info", "update_confluence_page", "list_sprints"}

\* the `input` objects a client may send
InputObjects ==
    {a @@ b @@ c :
        a \in {<<>>, "sprint_id" :> JStr(""), "sprint_id" :> JStr("S1")},
        b \in {<<>>, "confluence_page_id" :> JStr("P1")},
        c \in {<<>>, "content" :> JObj(<<>>), "content" :> JObj(InsightsA),
               "content" :> JObj(InsightsNoSprint)}}

\* request.json: null, or an object with or without name and input
Requests ==
    {JNull} \cup
    {JObj(n @@ i) :
        n \in {<<>>} \cup {"name" :> x : x \in ToolNames},
        i \in {<<>>, "input" :> JNull} \cup {"input" :> JObj(o) : o \in InputObjects}}

NoResp == <<>>
ErrorResp(status, code) == [status |-> status, error |-> [code |-> code]]
OutputResp(output) == [status |-> 200, output |-> output]

\* Python truth of the values the handler tests with `not`
Truthy(d, k) ==
    /\ Has(d, k)
    /\ d[k].t # "null"
    /\ d[k].t = "str" => d[k].v # ""
    /\ d[k].t = "obj" => DOMAIN d[k].v # {}

ExecIdle == epc = "idle" /\ req = JNull /\ sprint_data = JNull /\ resp = NoResp

Respond(r) == resp' = r /\ epc' = "done"

\* lines 92-115, 141-152 and 162-176: everything before the first outbound call
ExecDispatch ==
    /\ epc = "start"
    /\ UNCHANGED <<req, sprint_data, outbound, page, metricsVars, issuesVars>>
    /\ IF req.t = "null"
       THEN Respond(ErrorResp(500, "internal_error")) /\ UNCHANGED calls
       ELSE
       LET data == req.v
           tool_name == IF Has(data, "name") THEN data["name"] ELSE ""
           tool_input == IF Has(data, "input") THEN data["input"] ELSE JObj(<<>>)
       IN  IF tool_name = ""
           THEN Respond(ErrorResp(400, "invalid_request")) /\ UNCHANGED calls
           ELSE IF tool_name = "get_sprint_info"
           THEN IF tool_input.t = "null"
                THEN Respond(ErrorResp(500, "internal_error")) /\ UNCHANGED calls
                ELSE IF ~Truthy(tool_input.v, "sprint_id")
                THEN Respond(ErrorResp(400, "invalid_input")) /\ UNCHANGED calls
                ELSE epc' = "sprint" /\ UNCHANGED <<resp, calls>>
           ELSE IF tool_name = "update_confluence_page"
           THEN IF tool_input.t = "null"
                THEN Respond(ErrorResp(500, "internal_error")) /\ UNCHANGED calls
                ELSE IF ~(Truthy(tool_input.v, "sprint_id")
                          /\ Truthy(tool_input.v, "confluence_page_id")
                          /\ Truthy(tool_input.v, "content"))
                THEN Respond(ErrorResp(400, "invalid_input")) /\ UNCHANGED calls
                ELSE /\ epc' = "update"
                     /\ UpdEnter(1, tool_input.v["confluence_page_id"].v,
                                 tool_input.v["content"].v)
                     /\ UNCHANGED resp
           ELSE Respond(ErrorResp(404, "unknown_tool")) /\ UNCHANGED calls

\* faulty variant of NoSprint: the failed fetch goes unnoticed
NoSprintMutNever(sd) == FALSE

\* line 118: not sprint_data
NoSprint(sd) == sd = JNull \/ sd = <<>>

\* get_sprint_data (lines 225-235) and its use at lines 117-127: the tracker
\* fails (None is returned), or answers with a sprint or an empty object
ExecSprint ==
    /\ epc = "sprint"
    /\ UNCHANGED <<req, page, calls, metricsVars>>
    /\ \E answer \in {JNull, <<>>} \cup Sprints :
          /\ outbound' = Append(outbound, [ep |-> "sprint", ok |-> answer # JNull])
          /\ IF NoSprint(answer)
             THEN /\ Respond(ErrorResp(404, "resource_not_found"))
                  /\ UNCHANGED <<sprint_data, issuesVars>>
             ELSE /\ sprint_data' = answer
                  /\ epc' = "issues"
                  /\ IssuesEntry
                  /\ UNCHANGED resp

\* lines 130-139, and lines 170-176 when the aggregator raises
ExecMetrics ==
    /\ epc = "issues" /\ ipc = "done"
    /\ LET sprint_metrics == analyze_sprint_metrics(issues_ret, sprint_data)
       IN  IF sprint_metrics.raised
           THEN Respond(ErrorResp(500, "internal_error"))
           ELSE Respond(OutputResp([sprint |-> sprint_data,
                                    issues |-> issues_ret,
                                    metrics |-> sprint_metrics.value]))
    /\ UNCHANGED <<req, sprint_data, outbound, page, calls, metricsVars, issuesVars>>

\* lines 155-160, and lines 170-176 when the updater raises
ExecUpdateDone ==
    /\ epc = "update" /\ calls[1].pc = "done"
    /\ IF calls[1].raised # ""
       THEN Respond(ErrorResp(500, "internal_error"))
       ELSE Respond(OutputResp(calls[1].result))
    /\ UNCHANGED <<req, sprint_data, outbound, page, calls, metricsVars, issuesVars>>

(***************************************************************************)
(* Specifications.                                                         *)
(***************************************************************************)
NoPage == [version |-> 0, title |-> "", body |-> InitialBody]

InitPages ==
    {[version |-> v, title |-> t, body |-> InitialBody] :
        v \in 1..MaxInitVersion, t \in Titles}

\* analyze_sprint_metrics on every short issue list
InitMetrics ==
    /\ m_issues \in SeqsUpTo(IssueSet, MaxIssues)
    /\ m_sprint \in Sprints
    /\ m_out = NoOutcome
    /\ IssuesIdle /\ UpdateIdle /\ ExecIdle /\ page = NoPage

NextMetrics == Analyze

SpecMetrics == InitMetrics /\ [][NextMetrics]_vars

\* one call of get_sprint_issues against any tracker
InitIssues ==
    /\ ipc = "loop" /\ start_at = 0 /\ all_issues = <<>>
    /\ issues_ret = <<>> /\ pages = <<>>
    /\ MetricsIdle /\ UpdateIdle /\ ExecIdle /\ page = NoPage

NextIssues == FetchPage

SpecIssues == InitIssues /\ [][NextIssues]_vars /\ WF_vars(NextIssues)

\* update_confluence_document, one call after another
InitUpdate ==
    /\ page \in InitPages
    /\ UpdateIdle /\ MetricsIdle /\ IssuesIdle /\ ExecIdle

NextUpdateSeq == \E c \in CallIds : StartSeq(c) \/ UpdGet(c) \/ UpdPut(c)

SpecUpdateSeq == InitUpdate /\ [][NextUpdateSeq]_vars

\* update_confluence_document, calls overlapping
NextUpdateConc == \E c \in CallIds : StartConc(c) \/ UpdGet(c) \/ UpdPut(c)

SpecUpdateConc == InitUpdate /\ [][NextUpdateConc]_vars

\* one POST /mcp/execute
InitExec ==
    /\ epc = "start" /\ req \in Requests /\ sprint_data = JNull /\ resp = NoResp
    /\ page = [version |-> MaxInitVersion, title |-> "Sprint report",
               body |-> InitialBody]
    /\ UpdateIdle /\ MetricsIdle /\ IssuesIdle

NextExec ==
    \/ ExecDispatch
    \/ ExecSprint
    \/ FetchPage
    \/ ExecMetrics
    \/ UpdGet(1)
    \/ UpdPut(1)
    \/ ExecUpdateDone

SpecExec == InitExec /\ [][NextExec]_vars

(***************************************************************************)
(* Properties of get_sprint_issues (checked under SpecIssues).             *)
(***************************************************************************)
IssueRequests == SelectSeq(outbound, LAMBDA r : r.ep = "issues")

\* the issues of the first n answers, in fetch order
RECURSIVE ConcatPages(_, _)
ConcatPages(ps, n) ==
    IF n = 0 THEN <<>> ELSE ConcatPages(ps, n - 1) \o ps[n].issues

ErrorFree(ps) == \A i \in DOMAIN ps : ~ps[i].err

FailedAfterPages ==
    /\ ipc = "done"
    /\ Len(pages) >= 2
    /\ pages[Len(pages)].err

\* C1 as stated: a page request that fails after k >= 1 pages were fetched
\* makes the call return the issues of those k pages, in fetch order.
C1_PartialResultReturned ==
    FailedAfterPages => issues_ret = ConcatPages(pages, Len(pages) - 1)

\* C1 as the code has it: a page request that fails after k >= 1 pages were
\* fetched makes the call return (it does not raise) the empty list; the
\* issues of the k pages are dropped.
C1_EmptyResultReturned ==
    FailedAfterPages =>
        /\ issues_ret = <<>>
        /\ ConcatPages(pages, Len(pages) - 1) = all_issues
        /\ all_issues # <<>>

C1_Witness ==
    /\ FailedAfterPages
    /\ Len(all_issues) = 2 * 50
    /\ Len(IssueRequests) = 3

C2_Inv ==
    /\ \A i \in DOMAIN IssueRequests :
          /\ IssueRequests[i].startAt = 50 * (i - 1)
          /\ IssueRequests[i].maxResults = 50
    /\ Len(IssueRequests) = Len(pages)
    /\ ErrorFree(pages) =>
          /\ \A i \in 1..(Len(pages) - 1) : Len(pages[i].issues) = 50
          /\ ipc = "loop" => \A i \in DOMAIN pages : Len(pages[i].issues) = 50
          /\ ipc = "done" =>
                /\ pages # <<>>
                /\ Len(pages[Len(pages)].issues) < 50
                /\ issues_ret = ConcatPages(pages, Len(pages))

\* C2: page requests have size 50 and offsets 0, 50, 100, ...; with an
\* error-free tracker the call stops right after the first page with fewer
\* than 50 issues (or none) and returns all fetched pages concatenated in
\* fetch order; and the call terminates once the tracker's pages run short.
C2_Pagination == [](C2_Inv) /\ <>(ipc = "done")

\* pages of sizes [50, 50, 13]: 3 requests, 113 issues
C2_Witness ==
    /\ ipc = "done"
    /\ ErrorFree(pages)
    /\ Len(pages) = 3
    /\ Len(pages[1].issues) = 50 /\ Len(pages[2].issues) = 50
    /\ Len(pages[3].issues) = 13
    /\ Len(IssueRequests) = 3
    /\ Len(issues_ret) = 113

(***************************************************************************)
(* Properties of analyze_sprint_metrics (checked under SpecMetrics).       *)
(***************************************************************************)
\* the assignee key the specification gives an issue
ClaimedAssignee(issue) ==
    IF ~Has(issue.fields, "assignee") THEN "Unassigned"
    ELSE IF issue.fields["assignee"].t = "null" THEN "Unassigned"
    ELSE IF Has(issue.fields["assignee"], "displayName")
         THEN issue.fields["assignee"].displayName
         ELSE "Unassigned"

\* the estimate the specification gives an issue: missing or null counts as 0
ClaimedEstimate(issue) ==
    IF ~Has(issue.fields, "customfield_10016") THEN 0
    ELSE IF issue.fields["customfield_10016"].t = "num"
         THEN issue.fields["customfield_10016"].v
         ELSE 0

RECURSIVE SumEstimates(_, _)
SumEstimates(issues, statuses) ==
    IF issues = <<>> THEN 0
    ELSE (IF Head(issues).fields["status"].name \in statuses
          THEN ClaimedEstimate(Head(issues)) ELSE 0)
         + SumEstimates(Tail(issues), statuses)

CountAssignee(issues, key) ==
    Cardinality({i \in DOMAIN issues : ClaimedAssignee(issues[i]) = key})

ScenarioIssues ==
    <<Issue("Done", "Bug", WithAssignee(JUser("A")) @@ WithPoints(JNum(3))),
      Issue("Open", "Bug", WithAssignee(JNull) @@ WithPoints(JNum(2)))>>

\* C3: every call returns a metrics summary, in which issues_by_assignee
\* counts each issue under its assignee's name and under "Unassigned" when
\* the assignee is absent or null; the scenario of the specification gives
\* {A: 1, Unassigned: 1}, story points {total: 5, completed: 3}, velocity 3.
C3_NullAssigneeCounted ==
    Returned(m_out) =>
        /\ ~m_out.raised
        /\ LET by == m_out.value.issues_by_assignee
           IN  /\ DOMAIN by = {ClaimedAssignee(m_issues[i]) : i \in DOMAIN m_issues}
               /\ \A k \in DOMAIN by : by[k] = CountAssignee(m_issues, k)
        /\ m_issues = ScenarioIssues =>
              /\ m_out.value.issues_by_assignee = ("A" :> 1) @@ ("Unassigned" :> 1)
              /\ m_out.value.story_points = [total |-> 5, completed |-> 3]
              /\ m_out.value.velocity = 3

\* C4: every call (estimates are non-negative) returns a summary whose total
\* is the sum of all estimates, whose completed is the sum of the estimates
\* of the issues in status Done, Closed or Resolved, whose velocity equals
\* completed, and total >= completed >= 0.
C4_StoryPointSums ==
    Returned(m_out) =>
        /\ ~m_out.raised
        /\ LET sp == m_out.value.story_points
           IN  /\ sp.total = SumEstimates(m_issues, Statuses)
               /\ sp.completed = SumEstimates(m_issues, {"Done", "Closed", "Resolved"})
               /\ m_out.value.velocity = sp.completed
               /\ sp.total >= sp.completed
               /\ sp.completed >= 0

\* the reorderings of a sequence
Reorderings(s) ==
    {[i \in DOMAIN s |-> s[p[i]]] : p \in Permutations(DOMAIN s)}

Succeeded(c) ==
    /\ calls[c].pc = "done"
    /\ Has(calls[c].result, "success")
    /\ calls[c].result.success

Successes == Cardinality({c \in CallIds : Succeeded(c)})

GetsOf(c) == SelectSeq(outbound, LAMBDA r : r.ep = "wiki_get" /\ r.call = c)
PutsOf(c) == SelectSeq(outbound, LAMBDA r : r.ep = "wiki_put" /\ r.call = c)

\* the result is {success: false, message, page_id} and nothing else
IsFailureResult(c) ==
    /\ calls[c].raised = ""
    /\ DOMAIN calls[c].result = {"success", "message", "page_id"}
    /\ calls[c].result.success = FALSE
    /\ calls[c].result.page_id = calls[c].page_id

\* C6 (calls one after another, SpecUpdateSeq): the GET hands the call the
\* page's version v and title t; a call whose PUT succeeds has sent version
\* v + 1 and title t and returns {success: true, page_id, new_version: v + 1};
\* every step changes the page version by the number of calls that succeed
\* in it: by 1 for a successful call, by 0 for any other.
C6_VersionPlusOne ==
    [][/\ page'.version = page.version + (Successes' - Successes)
       /\ \A c \in CallIds :
            /\ (calls[c].pc = "get" /\ calls'[c].pc = "put") =>
                  /\ calls'[c].current_version = page.version
                  /\ calls'[c].title = page.title
            /\ (calls[c].pc = "put" /\ Succeeded(c)') =>
                  /\ outbound' = Append(outbound, outbound'[Len(outbound')])
                  /\ outbound'[Len(outbound')].ep = "wiki_put"
                  /\ outbound'[Len(outbound')].version = calls[c].current_version + 1
                  /\ outbound'[Len(outbound')].title = calls[c].title
                  /\ DOMAIN calls'[c].result =
                        {"success", "message", "page_id", "new_version"}
                  /\ calls'[c].result.page_id = calls[c].page_id
                  /\ calls'[c].result.new_version = calls[c].current_version + 1
      ]_vars

\* version 4 becomes 5 after one successful call
C6_Witness ==
    \E c \in CallIds :
        /\ Succeeded(c)
        /\ calls[c].current_version = 4
        /\ calls[c].result.new_version = 5
        /\ page.version = 5
        /\ Successes = 1

\* C7 (SpecUpdateConc): a call whose GET fails returns {success: false,
\* message, page_id} and never sends a PUT; a call whose GET succeeds and
\* whose PUT fails returns {success: false, message, page_id} too, without
\* new_version.
C7_FailureResults ==
    \A c \in CallIds :
        calls[c].pc = "done" =>
            /\ (Len(GetsOf(c)) = 1 /\ ~GetsOf(c)[1].ok) =>
                  (IsFailureResult(c) /\ PutsOf(c) = <<>>)
            /\ (Len(PutsOf(c)) = 1 /\ ~PutsOf(c)[1].ok) =>
                  (IsFailureResult(c) /\ GetsOf(c)[1].ok)

C7_Witness ==
    \E c, d \in CallIds :
        /\ calls[c].pc = "done" /\ calls[d].pc = "done"
        /\ ~GetsOf(c)[1].ok /\ PutsOf(c) = <<>>
        /\ GetsOf(d)[1].ok /\ Len(PutsOf(d)) = 1 /\ ~PutsOf(d)[1].ok

\* C8: whatever the insights and whatever the GET and PUT answer, a finished
\* call has returned an UpdateResult; it has not raised.
C8_NeverRaises ==
    \A c \in CallIds :
        calls[c].pc = "done" =>
            /\ calls[c].raised = ""
            /\ Has(calls[c].result, "success")

\* C10 (SpecUpdateConc): a call reads the page once and writes it at most
\* once (no re-read, no retry), the PUT carries the version of the call's own
\* GET plus 1 whatever the page's version is by then, and a call whose PUT is
\* accepted returns {success: true, new_version: v + 1}.
C10_NoCompareNoRetry ==
    \A c \in CallIds :
        /\ Len(GetsOf(c)) <= 1
        /\ Len(PutsOf(c)) <= 1
        /\ \A i \in DOMAIN PutsOf(c) :
              /\ PutsOf(c)[i].version = calls[c].current_version + 1
              /\ PutsOf(c)[i].ok =>
                    /\ Succeeded(c)
                    /\ calls[c].result.new_version = calls[c].current_version + 1

\* the lost update: two calls report success, the version grew by 1 only,
\* and the body one of them wrote is gone
C10_Witness ==
    \E c, d \in CallIds :
        /\ c # d
        /\ Succeeded(c) /\ Succeeded(d)
        /\ calls[c].current_version = calls[d].current_version
        /\ calls[c].result.new_version = calls[d].result.new_version
        /\ page.version = calls[c].current_version + 1
        /\ PutsOf(c)[1].body # PutsOf(d)[1].body
        /\ page.body = PutsOf(d)[1].body

(***************************************************************************)
(* Properties of execute_tool (checked under SpecExec).                    *)
(***************************************************************************)
ReqName == IF req.t = "obj" /\ Has(req.v, "name") THEN req.v["name"] ELSE ""

ReqInputIsNull ==
    req.t = "obj" /\ Has(req.v, "input") /\ req.v["input"].t = "null"

\* the input object sent; an absent input counts as an empty object
ReqInput ==
    IF req.t = "obj" /\ Has(req.v, "input") /\ req.v["input"].t = "obj"
    THEN req.v["input"].v
    ELSE <<>>

\* the `required` lists of MCP_TOOLS
RequiredInputs(name) ==
    IF name = "get_sprint_info" THEN {"sprint_id"}
    ELSE {"sprint_id", "confluence_page_id", "content"}

MissingRequired == \E k \in RequiredInputs(ReqName) : ~Has(ReqInput, k)

ToolKnown == ReqName \in {"get_sprint_info", "update_confluence_page"}

HasNullAssignee(issues) ==
    \E i \in DOMAIN issues :
        /\ Has(issues[i].fields, "assignee")
        /\ issues[i].fields["assignee"].t = "null"

\* a fault raised while handling: the body or the input is not an object,
\* the aggregator raised, or the updater raised
FaultRaised ==
    \/ req.t = "null"
    \/ ToolKnown /\ ReqInputIsNull
    \/ epc = "done" /\ ipc = "done" /\ HasNullAssignee(issues_ret)
    \/ calls[1].raised # ""

\* C9: the dispatcher validates in a fixed order and sends nothing before
\* validation passes: no name -> 400 invalid_request; a name that is not one
\* of the two tools -> 404 unknown_tool; a known tool whose input lacks a
\* required field -> 400 invalid_input; get_sprint_info with a failed sprint
\* fetch -> 404 resource_not_found and no request for the issues; a fault
\* raised during handling -> 500 internal_error.
C9_ValidationOrder ==
    /\ outbound # <<>> =>
          /\ req.t = "obj" /\ ToolKnown /\ ~ReqInputIsNull /\ ~MissingRequired
    /\ (epc = "done" /\ req.t = "obj") =>
          /\ ReqName = "" =>
                resp = ErrorResp(400, "invalid_request") /\ outbound = <<>>
          /\ (ReqName # "" /\ ~ToolKnown) =>
                resp = ErrorResp(404, "unknown_tool") /\ outbound = <<>>
          /\ (ToolKnown /\ ~ReqInputIsNull /\ MissingRequired) =>
                resp = ErrorResp(400, "invalid_input") /\ outbound = <<>>
          /\ (ReqName = "get_sprint_info" /\ outbound # <<>> /\ ~outbound[1].ok) =>
                /\ resp = ErrorResp(404, "resource_not_found")
                /\ outbound = <<[ep |-> "sprint", ok |-> FALSE]>>
    /\ (epc = "done" /\ FaultRaised) => resp = ErrorResp(500, "internal_error")

C9_Witness ==
    /\ epc = "done"
    /\ ReqName = "get_sprint_info"
    /\ resp = ErrorResp(404, "resource_not_found")
    /\ outbound = <<[ep |-> "sprint", ok |-> FALSE]>>

====
